---------------------------- MODULE Spec2Model ----------------------------
(***************************************************************************)
(* A model of cachesim.c: a set-associative cache simulator that replays   *)
(* a valgrind memory trace and counts hits, misses and evictions.          *)
(*                                                                         *)
(* The state is main's locals (the parsed options, the three counters and  *)
(* the cache built by makecache), runsim's locals (the operation and       *)
(* address of the trace line read last), and a history of the calls of     *)
(* access_cache: the address of each call and the branch it took, which is *)
(* what the program prints under -v.  Two more variables hold what the C   *)
(* program leaves to its platform: the blocks of the heap that makecache   *)
(* and freecache allocate and free, and what the build makes of a shift by *)
(* at least the width of its operand, which C leaves undefined.            *)
(***************************************************************************)
EXTENDS Integers, Sequences, FiniteSets

VARIABLES pc, args, cachsim, hit_count, miss_count, eviction_count,
          operation, address, calls, heap, build

vars == <<pc, args, cachsim, hit_count, miss_count, eviction_count,
          operation, address, calls, heap, build>>

---------------------------------------------------------------------------
(* Bounds of the model.                                                    *)

\* -s takes the values 0..MaxS
MaxS == 1
\* -E takes the values 0..MaxE
MaxE == 2
\* -b takes the values 0..MaxB
MaxB == 1
\* the trace is replayed until access_cache has been called MaxCalls times
MaxCalls == 4

\* The addresses of the data lines of a trace: 0x0, 0x4, 0x5, 0x6 and 0x10.
\* For s + b <= 2 the addresses 0x0, 0x4 and 0x10 carry different tags; 0x5
\* differs from 0x4 in bit 0 only and 0x6 in bit 1 only.
Addrs == {0, 4, 5, 6, 16}

\* The addresses of the data lines of the two traces the specification
\* gives as scenarios: 0x10, 0x20, 0x10 and 0x0, 0x4, 0x0.
ScenarioAddrs == {0, 4, 16, 32}

\* The addresses of the instruction lines of a trace.
CodeAddrs == {32}

\* Options outside the small ranges: a negative -E, and -s and -b at the
\* width of an int and of an unsigned long.
WideS == {0, 1, 32}
WideE == {-1, 0, 1}
WideB == {0, 1, 63, 64}

\* What a build makes of a shift by at least the width of the shifted type:
\* the count is taken modulo the width (as x86 does), or every bit is
\* shifted out.  "-" as long as the program has met no such shift.
Builds == {"wrap", "zero"}

\* The operation letters of a trace line: load, store, modify, and the
\* instruction load that valgrind also records.
Ops == {"L", "S", "M", "I"}

\* The addresses of the trace lines of an operation, the data lines taking
\* theirs from AA.
LineAddrs(op, AA) == IF op = "I" THEN CodeAddrs ELSE AA

\* The branch access_cache takes.
Hit == "Hit"
MissFill == "MissFill"
MissEvict == "MissEvict"

---------------------------------------------------------------------------
(* The cache structure.                                                    *)

\* typedef struct { int valid; unsigned long tag; int lru; } line;
Line(valid, tag, lru) == [valid |-> valid, tag |-> tag, lru |-> lru]

\* No cache: main before makecache, and makecache's failure result.
NULL == [s |-> 0, E |-> 0, b |-> 0, S |-> 0, sets |-> <<>>]

\* A makecache that leaves the valid bit of every line set.
makecacheValid(s, E, b) ==
    LET S == IF s < 31 THEN 2^s ELSE 1
    IN  [s |-> s, E |-> E, b |-> b, S |-> S,
         sets |-> [i \in 0..(S-1) |-> [j \in 0..(E-1) |-> Line(1, 0, 0)]]]

\* 1 << s on int, for s below 31 or from 32 on (1 << 31 overflows to
\* INT_MIN and is left out of the options).
IntShl1(s) ==
    IF s < 31 THEN 2^s
    ELSE IF build = "wrap" THEN 2^(s % 32)
    ELSE 0

\* makecache, allocation succeeding: S = 1 << s sets of E lines, every line
\* with valid = 0, tag = 0, lru = 0.
makecache(s, E, b) ==
    LET S == IntShl1(s)
    IN  [s |-> s, E |-> E, b |-> b, S |-> S,
         sets |-> [i \in 0..(S-1) |-> [j \in 0..(E-1) |-> Line(0, 0, 0)]]]

---------------------------------------------------------------------------
(* access_cache and its helpers.                                           *)

\* x >> n on an unsigned long x below 2^31, as every address of Addrs is: a
\* count from 31 on shifts every bit out, and a count from 64 on is left to
\* the build.
Shr(x, n) ==
    IF n >= 64 /\ build # "wrap" THEN 0
    ELSE IF n % 64 < 31 THEN x \div 2^(n % 64)
    ELSE 0

\* x & ((1UL << n) - 1) for x below 2^31 and n below 64
LowBits(x, n) == IF n < 31 THEN x % 2^n ELSE x

\* A set index taken from the lowest s bits of the address, block offset
\* included.
SetIndexNoShift(c, a) == LowBits(a, c.s)

\* (*address >> c->b) & ((1UL << c->s) - 1)
SetIndex(c, a) == LowBits(Shr(a, c.b), c.s)

\* A tag that is shifted one bit too far.
TagOfShort(c, a) == Shr(a, c.s + c.b + 1)

\* *address >> (c->s + c->b)
TagOf(c, a) == Shr(a, c.s + c.b)

\* A hit loop that stops one line early.
RECURSIVE HitScanShort(_, _, _, _)
HitScanShort(lines, E, tag, i) ==
    IF i >= E - 1 THEN -1
    ELSE IF lines[i].valid = 1 /\ lines[i].tag = tag THEN i
    ELSE HitScanShort(lines, E, tag, i + 1)

\* The first loop of access_cache: the first line that is valid and holds
\* the tag, or -1 when the loop ends without one.
RECURSIVE HitScan(_, _, _, _)
HitScan(lines, E, tag, i) ==
    IF i >= E THEN -1
    ELSE IF lines[i].valid = 1 /\ lines[i].tag = tag THEN i
    ELSE HitScan(lines, E, tag, i + 1)

\* A scan for an empty line that keeps going and so ends on the last one.
RECURSIVE EmptyScanLast(_, _, _)
EmptyScanLast(lines, E, i) ==
    IF i >= E THEN -1
    ELSE IF lines[i].valid = 0 /\ EmptyScanLast(lines, E, i + 1) = -1 THEN i
    ELSE EmptyScanLast(lines, E, i + 1)

\* The second loop of access_cache: the first line that is not valid, or -1.
RECURSIVE EmptyScan(_, _, _)
EmptyScan(lines, E, i) ==
    IF i >= E THEN -1
    ELSE IF lines[i].valid = 0 THEN i
    ELSE EmptyScan(lines, E, i + 1)

\* A scan that falls back to the last line when no lru is E - 1.
RECURSIVE LruScanLast(_, _, _)
LruScanLast(lines, E, i) ==
    IF i >= E THEN E - 1
    ELSE IF lines[i].lru = E - 1 THEN i
    ELSE LruScanLast(lines, E, i + 1)

\* find_lru: the first line whose lru is E - 1, or 0 when there is none.
RECURSIVE LruScan(_, _, _)
LruScan(lines, E, i) ==
    IF i >= E THEN 0
    ELSE IF lines[i].lru = E - 1 THEN i
    ELSE LruScan(lines, E, i + 1)

find_lru(E, lines) == LruScan(lines, E, 0)

\* An ageing loop that compares with <= where lru_update compares with <.
RECURSIVE LruLoopLe(_, _, _, _)
LruLoopLe(lines, E, idx, i) ==
    IF i >= E THEN lines
    ELSE LruLoopLe(IF lines[i].valid = 1 /\ lines[i].lru <= lines[idx].lru
                   THEN [lines EXCEPT ![i].lru = @ + 1]
                   ELSE lines,
                   E, idx, i + 1)

\* The loop of lru_update, from line i on: a valid line whose lru is below
\* the lru of the touched line (read anew in every round) is aged by one.
RECURSIVE LruLoop(_, _, _, _)
LruLoop(lines, E, idx, i) ==
    IF i >= E THEN lines
    ELSE LruLoop(IF lines[i].valid = 1 /\ lines[i].lru < lines[idx].lru
                 THEN [lines EXCEPT ![i].lru = @ + 1]
                 ELSE lines,
                 E, idx, i + 1)

\* lru_update on the line at index idx of a set
lru_update(E, lines, idx) ==
    [LruLoop(lines, E, idx, 0) EXCEPT ![idx].lru = 0]

\* What access_cache works on: the cache, the three counters it is handed
\* by address, and the history of its calls.
Sim(c, hit, miss, evictions, log) ==
    [c |-> c, hit |-> hit, miss |-> miss, evictions |-> evictions, log |-> log]

\* One record of the history: the address, the branch taken, and the line
\* the call touched.
Call(a, outcome, idx) == [address |-> a, outcome |-> outcome, line |-> idx]

\* access_cache when the first loop finds the tag in line h: a hit.
AccessHit(st, a, set, h) ==
    [st EXCEPT !.hit = @ + 1,
               !.c.sets[set] = lru_update(st.c.E, @, h),
               !.log = Append(@, Call(a, Hit, h))]

\* A fill that makes the line valid and leaves its tag as it was.
AccessFillNoTag(st, a, set, tag, e) ==
    [st EXCEPT !.miss = @ + 1,
               !.c.sets[set] = lru_update(st.c.E, [@ EXCEPT ![e].valid = 1], e),
               !.log = Append(@, Call(a, MissFill, e))]

\* access_cache when the second loop finds the empty line e: the line is
\* made valid and takes the tag, a miss.
AccessFill(st, a, set, tag, e) ==
    [st EXCEPT !.miss = @ + 1,
               !.c.sets[set] =
                   lru_update(st.c.E, [@ EXCEPT ![e].valid = 1, ![e].tag = tag], e),
               !.log = Append(@, Call(a, MissFill, e))]

\* An eviction that is counted as a miss only, not as an eviction.
AccessEvictNoEviction(st, a, set, tag) ==
    LET lru_idx == find_lru(st.c.E, st.c.sets[set])
    IN  [st EXCEPT !.miss = @ + 1,
                   !.c.sets[set] =
                       lru_update(st.c.E, [@ EXCEPT ![lru_idx].tag = tag], lru_idx),
                   !.log = Append(@, Call(a, MissEvict, lru_idx))]

\* An eviction that is counted as an eviction only, not as a miss.
AccessEvictNoMiss(st, a, set, tag) ==
    LET lru_idx == find_lru(st.c.E, st.c.sets[set])
    IN  [st EXCEPT !.evictions = @ + 1,
                   !.c.sets[set] =
                       lru_update(st.c.E, [@ EXCEPT ![lru_idx].tag = tag], lru_idx),
                   !.log = Append(@, Call(a, MissEvict, lru_idx))]

\* access_cache when both loops find nothing: the line find_lru names takes
\* the tag, a miss and an eviction.
AccessEvict(st, a, set, tag) ==
    LET lru_idx == find_lru(st.c.E, st.c.sets[set])
    IN  [st EXCEPT !.miss = @ + 1,
                   !.evictions = @ + 1,
                   !.c.sets[set] =
                       lru_update(st.c.E, [@ EXCEPT ![lru_idx].tag = tag], lru_idx),
                   !.log = Append(@, Call(a, MissEvict, lru_idx))]

\* access_cache(c, &a, &hit, &miss, &evictions, verb)
access_cache(st, a) ==
    LET c     == st.c
        set   == SetIndex(c, a)
        tag   == TagOf(c, a)
        h     == HitScan(c.sets[set], c.E, tag, 0)
        e     == EmptyScan(c.sets[set], c.E, 0)
    IN  IF h # -1 THEN AccessHit(st, a, set, h)
        ELSE IF e # -1 THEN AccessFill(st, a, set, tag, e)
        ELSE AccessEvict(st, a, set, tag)

---------------------------------------------------------------------------
(* runsim.                                                                 *)

\* A loop body that does not look for L and S: every line that is not an M
\* accesses the cache once.
runsim_lineAny(st, op, a) ==
    IF op = "M" THEN access_cache(access_cache(st, a), a) ELSE access_cache(st, a)

\* The body of runsim's loop for one trace line: L and S access the cache
\* once, M twice, anything else not at all.
runsim_line(st, op, a) ==
    LET st1 == IF op = "L" \/ op = "S" THEN access_cache(st, a) ELSE st
    IN  IF op = "M" THEN access_cache(access_cache(st1, a), a) ELSE st1

\* The simulation state held in the variables.
Now == Sim(cachsim, hit_count, miss_count, eviction_count, calls)

---------------------------------------------------------------------------
(* The program.                                                            *)

TypeOK ==
    /\ pc \in {"main", "usage", "error", "runsim", "done", "fault"}
    /\ build \in Builds \cup {"-"}
    /\ hit_count \in Nat /\ miss_count \in Nat /\ eviction_count \in Nat
    /\ operation \in Ops \cup {"-"}
    /\ address \in Addrs \cup ScenarioAddrs \cup CodeAddrs
    /\ Len(calls) <= MaxCalls

\* The program at the start of main.
Init ==
    /\ pc = "main"
    /\ args = [h |-> FALSE, s |-> 0, E |-> 0, b |-> 0, t |-> FALSE]
    /\ cachsim = NULL
    /\ hit_count = 0 /\ miss_count = 0 /\ eviction_count = 0
    /\ operation = "-"
    /\ address = 0
    /\ calls = <<>>
    /\ heap = <<>>
    /\ build = "-"

\* The blocks makecache allocates for S sets, in the order it allocates
\* them: block 1 is the cache structure, block 2 the array of sets, block
\* 3 + i the lines of set i.
Blocks(S) == 1..(S + 2)

\* A makecache whose failure path frees the lines and the cache structure
\* and forgets the array of sets.
makecache_heapLeak(S, fail) ==
    IF fail = 0 THEN [k \in Blocks(S) |-> 0]
    ELSE [k \in 1..(fail - 1) |-> IF k = 2 THEN 0 ELSE 1]

\* The heap after makecache when the allocation of block fail fails (0:
\* none fails): every block allocated before it, with the number of times
\* it has been freed.  On a failure the lines allocated so far, the array of
\* sets and the cache structure are freed.
makecache_heap(S, fail) ==
    IF fail = 0 THEN [k \in Blocks(S) |-> 0]
    ELSE [k \in 1..(fail - 1) |-> 1]

\* The allocation that fails in makecache when the platform lets allocation
\* fail fail (0: none): with E below 0 the size (size_t)E * sizeof(line) of
\* the lines is above 2^63 and the first allocation of lines fails anyhow.
FirstFailure(S, E, fail) ==
    IF E < 0 /\ S >= 1 /\ (fail = 0 \/ fail > 3) THEN 3 ELSE fail

\* freecache: every block of the cache is freed once more.
freecache(h) == [k \in DOMAIN h |-> h[k] + 1]

\* main up to the call of runsim, the options taken from SS, EE and BB: the
\* options are parsed; -h, a missing trace name, or s, E or b equal to 0
\* print the usage and exit; otherwise the counters are zeroed, the cache is
\* made and the trace file is opened, and a failure of either ends the
\* program with status 1.
MainOn(SS, EE, BB) ==
    /\ pc = "main"
    /\ \E h \in BOOLEAN, t \in BOOLEAN, s \in SS, E \in EE, b \in BB,
          bd \in Builds, opened \in BOOLEAN :
          /\ args' = [h |-> h, s |-> s, E |-> E, b |-> b, t |-> t]
          /\ IF h \/ s = 0 \/ E = 0 \/ b = 0 \/ ~t
             THEN /\ pc' = "usage"
                  /\ cachsim' = NULL
                  /\ heap' = <<>>
                  /\ build' = build
             ELSE /\ build' = IF s >= 32 \/ s + b >= 64 THEN bd ELSE build
                  /\ \E fail \in 0..(IntShl1(s)' + 2) :
                        LET f == FirstFailure(IntShl1(s)', E, fail)
                        IN  /\ heap' = makecache_heap(IntShl1(s)', f)
                            /\ IF f # 0
                               THEN pc' = "error" /\ cachsim' = NULL
                               ELSE /\ cachsim' = makecache(s, E, b)'
                                    /\ pc' = IF opened THEN "runsim" ELSE "error"
    /\ hit_count' = 0 /\ miss_count' = 0 /\ eviction_count' = 0
    /\ UNCHANGED <<operation, address, calls>>

\* main with the options in the small ranges.
Main == MainOn(0..MaxS, 0..MaxE, 0..MaxB)

\* main with the options outside the small ranges as well.
MainWide == MainOn(WideS, WideE, WideB)

\* The set that a trace line accesses is one of the S sets of the cache.
InRange(c, op, a) ==
    op \in {"L", "S", "M"} => SetIndex(c, a) \in 0..(c.S - 1)

\* One round of runsim's loop, the data lines taking their addresses from
\* AA: fscanf reads a trace line and the line is replayed.
RunsimLineOn(AA) ==
    /\ pc = "runsim"
    /\ \E op \in Ops : \E a \in LineAddrs(op, AA) :
          /\ InRange(cachsim, op, a)
          /\ LET st == runsim_line(Now, op, a)
             IN
              /\ Len(st.log) <= MaxCalls
              /\ operation' = op
              /\ address' = a
              /\ cachsim' = st.c
              /\ hit_count' = st.hit
              /\ miss_count' = st.miss
              /\ eviction_count' = st.evictions
              /\ calls' = st.log
    /\ UNCHANGED <<pc, args, heap, build>>

\* A round of the loop on a trace over Addrs, and on one over ScenarioAddrs.
RunsimLine == RunsimLineOn(Addrs)
RunsimScenarioLine == RunsimLineOn(ScenarioAddrs)

\* A round of runsim's loop on a trace line whose set index is not below S:
\* access_cache reads c->sets[cache_set] outside the array of sets.  What
\* follows is undefined (the build at hand ends with a segmentation fault),
\* and the model follows the program no further.
RunsimFault ==
    /\ pc = "runsim"
    /\ \E op \in Ops, a \in Addrs :
          /\ ~InRange(cachsim, op, a)
          /\ Len(calls) < MaxCalls
          /\ operation' = op
          /\ address' = a
    /\ pc' = "fault"
    /\ UNCHANGED <<args, cachsim, hit_count, miss_count, eviction_count,
                   calls, heap, build>>

\* fscanf finds the end of the trace: runsim returns, main prints the
\* summary and frees the cache.
RunsimEnd ==
    /\ pc = "runsim"
    /\ pc' = "done"
    /\ cachsim' = NULL
    /\ heap' = freecache(heap)
    /\ UNCHANGED <<args, hit_count, miss_count, eviction_count,
                   operation, address, calls, build>>

Next == Main \/ RunsimLine \/ RunsimEnd

Spec == Init /\ [][Next]_vars

\* The cache model on its own: runsim on a cache that makecache has just
\* built for any s >= 0, E >= 1 and b >= 0, with the counters at zero.
InitCache ==
    /\ pc = "runsim"
    /\ \E s \in 0..MaxS, E \in 1..MaxE, b \in 0..MaxB :
          /\ args = [h |-> FALSE, s |-> s, E |-> E, b |-> b, t |-> TRUE]
          /\ cachsim = makecache(s, E, b)
          /\ heap = makecache_heap(2^s, 0)
    /\ build = "-"
    /\ hit_count = 0 /\ miss_count = 0 /\ eviction_count = 0
    /\ operation = "-"
    /\ address = 0
    /\ calls = <<>>

NextCache == RunsimScenarioLine \/ RunsimEnd

CacheSpec == InitCache /\ [][NextCache]_vars

\* The program given options outside the small ranges as well.
NextWide == MainWide \/ RunsimLine \/ RunsimFault \/ RunsimEnd

WideSpec == Init /\ [][NextWide]_vars

---------------------------------------------------------------------------
(* Notions the properties are stated in.                                   *)

Range(f) == {f[x] : x \in DOMAIN f}

\* The lines of a set, their valid lines, and the tags those hold.
LinesOf(c) == 0..(c.E - 1)
ValidLines(lines) == {i \in DOMAIN lines : lines[i].valid = 1}
ValidTags(lines) == {lines[i].tag : i \in ValidLines(lines)}

\* The branches of the calls made so far, and their addresses.
Outcomes == [n \in 1..Len(calls) |-> calls[n].outcome]
Addresses == [n \in 1..Len(calls) |-> calls[n].address]
Count(outcome) == Cardinality({n \in 1..Len(calls) : calls[n].outcome = outcome})

\* A reference LRU stack of at most E tags, most recently used first: a tag
\* that is accessed moves to the front, and on a full stack a new tag drops
\* the tag at the back.
RefOutcome(stack, tag, E) ==
    IF tag \in Range(stack) THEN Hit
    ELSE IF Len(stack) < E THEN MissFill
    ELSE MissEvict

RefTouch(stack, tag, E) ==
    IF tag \in Range(stack) THEN <<tag>> \o SelectSeq(stack, LAMBDA x : x # tag)
    ELSE IF Len(stack) < E THEN <<tag>> \o stack
    ELSE <<tag>> \o SubSeq(stack, 1, E - 1)

\* The reference stacks of the sets of c after the first n calls of log.
RECURSIVE RefStacks(_, _, _)
RefStacks(c, log, n) ==
    IF n = 0 THEN [i \in 0..(c.S - 1) |-> <<>>]
    ELSE LET a == log[n].address
         IN  [RefStacks(c, log, n - 1) EXCEPT
                 ![SetIndex(c, a)] = RefTouch(@, TagOf(c, a), c.E)]

RefOutcomeAt(c, log, n) ==
    LET a == log[n].address
    IN  RefOutcome(RefStacks(c, log, n - 1)[SetIndex(c, a)], TagOf(c, a), c.E)

---------------------------------------------------------------------------
(* C1 *)

\* C1: eviction is least-recently-used.  While the trace is replayed, the
\* branch of every call made so far is the branch the reference LRU stack
\* of its set takes, and the tags held by the valid lines of every set are
\* the tags on the reference stack of that set (so an eviction has always
\* dropped the tag accessed longest ago).
C1_EvictionIsLRU ==
    pc = "runsim" =>
        /\ \A n \in 1..Len(calls) :
              calls[n].outcome = RefOutcomeAt(cachsim, calls, n)
        /\ \A set \in 0..(cachsim.S - 1) :
              ValidTags(cachsim.sets[set]) =
                  Range(RefStacks(cachsim, calls, Len(calls))[set])

---------------------------------------------------------------------------
(* C2 *)

\* C2: the recency invariant.  In every set no two valid lines have the
\* same lru, and the lru values of the k valid lines are exactly 0..k-1.
C2_RecencyInvariant ==
    pc = "runsim" =>
        \A set \in 0..(cachsim.S - 1) :
            LET lines == cachsim.sets[set]
                V     == ValidLines(lines)
            IN  /\ \A i, j \in V : i # j => lines[i].lru # lines[j].lru
                /\ {lines[i].lru : i \in V} = 0..(Cardinality(V) - 1)

---------------------------------------------------------------------------
(* C3 *)

\* The least element of a nonempty set of integers.
Least(S) == CHOOSE x \in S : \A y \in S : x <= y

\* C3: the priority of the branches of access.  In every state the replay
\* reaches and for every address: the call is a Hit exactly if a valid line
\* of the target set holds the tag; otherwise it is a MissFill exactly if
\* the set has an invalid line, and then the invalid line of lowest index
\* becomes valid with the tag and nothing else changes a valid bit or tag;
\* otherwise it is a MissEvict, no valid bit changes and exactly one line's
\* tag changes, to the new tag.  A Hit changes no valid bit and no tag.
C3_OutcomePriority ==
    pc = "runsim" =>
        \A a \in Addrs :
            LET st      == access_cache(Now, a)
                set     == SetIndex(cachsim, a)
                tag     == TagOf(cachsim, a)
                before  == cachsim.sets[set]
                after   == st.c.sets[set]
                out     == st.log[Len(st.log)].outcome
                present == \E i \in LinesOf(cachsim) :
                               before[i].valid = 1 /\ before[i].tag = tag
                invalid == {i \in LinesOf(cachsim) : before[i].valid = 0}
                changed == {i \in LinesOf(cachsim) :
                               \/ after[i].valid # before[i].valid
                               \/ after[i].tag # before[i].tag}
                retagged == {i \in LinesOf(cachsim) : after[i].tag # before[i].tag}
            IN  /\ out \in {Hit, MissFill, MissEvict}
                /\ out = Hit <=> present
                /\ ~present => (out = MissFill <=> invalid # {})
                /\ out = Hit => changed = {}
                /\ out = MissFill =>
                       /\ after[Least(invalid)].valid = 1
                       /\ after[Least(invalid)].tag = tag
                       /\ changed = {Least(invalid)}
                /\ out = MissEvict =>
                       /\ \A i \in LinesOf(cachsim) : after[i].valid = before[i].valid
                       /\ Cardinality(retagged) = 1
                       /\ \A i \in retagged : after[i].tag = tag

\* All three branches have been taken in one replay, on a set of two lines.
C3_Witness ==
    /\ pc = "runsim"
    /\ cachsim.E = 2
    /\ {Hit, MissFill, MissEvict} \subseteq Range(Outcomes)

---------------------------------------------------------------------------
(* C4 *)

\* The tag of address a is held by a valid line of its set in cache c.
Cached(c, a) ==
    \E i \in LinesOf(c) :
        /\ c.sets[SetIndex(c, a)][i].valid = 1
        /\ c.sets[SetIndex(c, a)][i].tag = TagOf(c, a)

\* C4: a Modify line makes two calls of access on its address and the
\* second is a Hit: on an address that is not cached it adds one miss and
\* one hit to the counters, on a cached address two hits.
C4_ModifyMissThenHit ==
    [][(pc = "runsim" /\ pc' = "runsim" /\ operation' = "M") =>
          LET n == Len(calls)
          IN  /\ Len(calls') = n + 2
              /\ calls'[n + 1].address = address'
              /\ calls'[n + 2].address = address'
              /\ calls'[n + 2].outcome = Hit
              /\ IF Cached(cachsim, address')
                 THEN /\ calls'[n + 1].outcome = Hit
                      /\ hit_count' = hit_count + 2
                      /\ miss_count' = miss_count
                 ELSE /\ calls'[n + 1].outcome # Hit
                      /\ hit_count' = hit_count + 1
                      /\ miss_count' = miss_count + 1]_vars

\* A Modify line has just been replayed on an address that was not cached
\* and whose set was full.
C4_Witness ==
    /\ pc = "runsim"
    /\ operation = "M"
    /\ Len(calls) >= 2
    /\ calls[Len(calls) - 1].outcome = MissEvict
    /\ calls[Len(calls)].outcome = Hit
    /\ hit_count = 1

---------------------------------------------------------------------------
(* C5 *)

\* The cache makecache builds from the options.
Fresh == makecache(args.s, args.E, args.b)

\* The simulation after the first n calls of log, replayed from a cache c0
\* and zeroed counters.
RECURSIVE Replay(_, _, _)
Replay(c0, log, n) ==
    IF n = 0 THEN Sim(c0, 0, 0, 0, <<>>)
    ELSE access_cache(Replay(c0, log, n - 1), log[n].address)

\* C5: repeated access is stable.  Accessing the address of the last call
\* once more is a Hit, and when the last call was a Hit it leaves the cache
\* as it is.  And E + 1 calls in a row on one address, begun on a full set
\* that does not hold its tag, are one MissEvict followed by Hits only.
C5_RepeatedAccessStable ==
    (pc = "runsim" /\ calls # <<>>) =>
        LET last == calls[Len(calls)]
            st   == access_cache(Now, last.address)
        IN  /\ st.log[Len(st.log)].outcome = Hit
            /\ last.outcome = Hit => st.c = cachsim
            /\ \A k \in 1..Len(calls) :
                  LET a      == calls[k].address
                      before == Replay(Fresh, calls, k - 1).c
                      E      == cachsim.E
                  IN  ( /\ k + E <= Len(calls)
                        /\ \A j \in k..(k + E) : calls[j].address = a
                        /\ ValidLines(before.sets[SetIndex(before, a)]) = LinesOf(before)
                        /\ ~Cached(before, a) )
                      => /\ calls[k].outcome = MissEvict
                         /\ \A j \in (k + 1)..(k + E) : calls[j].outcome = Hit

\* A new address has been accessed E + 1 times in a row on a full set, and
\* the last of these calls was a Hit.
C5_Witness ==
    /\ pc = "runsim"
    /\ Len(calls) = cachsim.E + cachsim.E + 1
    /\ \A j \in 1..cachsim.E : calls[j].outcome = MissFill
    /\ \A j \in (cachsim.E + 1)..Len(calls) :
          calls[j].address = calls[Len(calls)].address
    /\ calls[cachsim.E + 1].outcome = MissEvict
    /\ calls[Len(calls)].outcome = Hit

---------------------------------------------------------------------------
(* C6 *)

\* The tags that the calls before call n have accessed in the set of call n.
TagsBefore(c, log, n) ==
    {TagOf(c, log[m].address) :
        m \in {m \in 1..(n - 1) :
                  SetIndex(c, log[m].address) = SetIndex(c, log[n].address)}}

\* C6: cold start.  Before the first call every line of the cache is
\* invalid and no address would hit.  And as long as a call keeps the number
\* of different tags accessed in its set at or below E, it is a Hit when its
\* tag was accessed before and a MissFill when it is new: the first access
\* of a set is never a Hit, and no MissEvict comes before E different tags.
C6_ColdStart ==
    pc = "runsim" =>
        /\ calls = <<>> =>
              /\ \A set \in 0..(cachsim.S - 1) : ValidLines(cachsim.sets[set]) = {}
              /\ \A a \in Addrs :
                    LET st == access_cache(Now, a)
                    IN  st.log[Len(st.log)].outcome = MissFill
        /\ \A n \in 1..Len(calls) :
              LET tag   == TagOf(cachsim, calls[n].address)
                  prior == TagsBefore(cachsim, calls, n)
              IN  Cardinality(prior \cup {tag}) <= cachsim.E =>
                      calls[n].outcome = IF tag \in prior THEN Hit ELSE MissFill

\* A set of two lines has been filled by two different tags with a Hit on
\* the first of them in between.
C6_Witness ==
    /\ pc = "runsim"
    /\ cachsim.E = 2
    /\ Len(calls) = 3
    /\ calls[1].outcome = MissFill
    /\ calls[2].outcome = Hit
    /\ calls[3].outcome = MissFill
    /\ Cardinality(TagsBefore(cachsim, calls, 3)) = 1

---------------------------------------------------------------------------
(* C7 *)

\* C7: counter accounting.  hit_count is the number of calls that were a
\* Hit, miss_count the number that were a MissFill or a MissEvict,
\* eviction_count the number that were a MissEvict; so the hits and misses
\* add up to the number of calls and there are no more evictions than
\* misses.  One more call adds exactly one to either the hits or the misses.
C7_CounterAccounting ==
    /\ hit_count = Count(Hit)
    /\ miss_count = Count(MissFill) + Count(MissEvict)
    /\ eviction_count = Count(MissEvict)
    /\ hit_count + miss_count = Len(calls)
    /\ eviction_count <= miss_count
    /\ pc = "runsim" =>
          \A a \in Addrs :
              LET st == access_cache(Now, a)
              IN  \/ st.hit = hit_count + 1 /\ st.miss = miss_count
                  \/ st.hit = hit_count /\ st.miss = miss_count + 1

\* The program has ended after calls of all three kinds.
C7_Witness ==
    /\ pc = "done"
    /\ hit_count >= 1
    /\ eviction_count >= 1
    /\ miss_count > eviction_count

---------------------------------------------------------------------------
(* C8 *)

\* C8: the scenario s = 0, E = 1, b = 0.  The program, given these options
\* and a trace name and no -h, accepts them (it does not end in the usage
\* message), and the calls on 0x10, 0x20, 0x10 are a MissFill and two
\* MissEvicts, with 0 hits, 3 misses and 2 evictions.
C8_ScenarioOneLine ==
    (pc # "main" /\ ~args.h /\ args.t /\ args.s = 0 /\ args.E = 1 /\ args.b = 0) =>
        /\ pc # "usage"
        /\ Addresses = <<16, 32, 16>> =>
              /\ Outcomes = <<MissFill, MissEvict, MissEvict>>
              /\ hit_count = 0 /\ miss_count = 3 /\ eviction_count = 2

\* The calls of the scenario of C8 on a cache that makecache(0, 1, 0) built.
C8_OnMadeCache ==
    (args.s = 0 /\ args.E = 1 /\ args.b = 0 /\ Addresses = <<16, 32, 16>>) =>
        /\ Outcomes = <<MissFill, MissEvict, MissEvict>>
        /\ hit_count = 0 /\ miss_count = 3 /\ eviction_count = 2

---------------------------------------------------------------------------
(* C9 *)

\* The set and the tag of every call made so far.
SetsOfCalls == [n \in 1..Len(calls) |-> SetIndex(Fresh, calls[n].address)]
TagsOfCalls == [n \in 1..Len(calls) |-> TagOf(Fresh, calls[n].address)]

\* The scenario of C9: a cache made with s = 1, E = 2, b = 0 and calls on
\* the addresses 0x0, 0x4, 0x0.
C9_Scenario ==
    /\ pc = "runsim"
    /\ args.s = 1 /\ args.E = 2 /\ args.b = 0
    /\ Addresses = <<0, 4, 0>>

---------------------------------------------------------------------------
(* C10 *)

\* C10: the dispatch of the trace driver.  A round of runsim's loop only
\* appends to the calls made so far: one call on the address of the line for
\* an L or an S, two for an M, and for any other operation no call, with the
\* cache and the three counters left as they are.
C10_TraceDispatch ==
    [][(pc = "runsim" /\ pc' = "runsim") =>
          LET n == Len(calls)
              m == Len(calls')
          IN  /\ m >= n
              /\ SubSeq(calls', 1, n) = calls
              /\ \A k \in (n + 1)..m : calls'[k].address = address'
              /\ operation' \in {"L", "S"} => m = n + 1
              /\ operation' = "M" => m = n + 2
              /\ operation' \notin {"L", "S", "M"} =>
                    /\ m = n
                    /\ UNCHANGED <<cachsim, hit_count, miss_count, eviction_count>>]_vars

\* An instruction line has been read after four calls, on an address that
\* none of the calls was made on.
C10_Witness ==
    /\ pc = "runsim"
    /\ operation = "I"
    /\ Len(calls) = 4
    /\ address \notin Range(Addresses)

---------------------------------------------------------------------------
(* C11 *)

\* Two addresses below 2^31 that differ in their low b bits only.
SameBlock(b, a1, a2) == IF b < 31 THEN a1 \div 2^b = a2 \div 2^b ELSE TRUE

\* The branch of the last call of a simulation state.
LastOutcome(st) == st.log[Len(st.log)].outcome

\* C11: the block-offset bits are irrelevant.  From every cache the
\* simulation reaches, two addresses that differ in their low b bits only
\* take the same branch and leave the same cache and the same counters, and
\* the second hits after the first; and an address that the cache does not
\* hold hits after an access to another address only if the two differ in
\* their low b bits only.
C11_BlockOffsetIrrelevant ==
    pc = "runsim" =>
        \A a1 \in Addrs, a2 \in Addrs :
            (InRange(cachsim, "L", a1) /\ InRange(cachsim, "L", a2)) =>
                LET r1 == access_cache(Now, a1)
                    r2 == access_cache(Now, a2)
                    r12 == access_cache(r1, a2)
                IN  /\ SameBlock(cachsim.b, a1, a2) =>
                          /\ LastOutcome(r1) = LastOutcome(r2)
                          /\ r1.c = r2.c
                          /\ <<r1.hit, r1.miss, r1.evictions>> =
                                 <<r2.hit, r2.miss, r2.evictions>>
                          /\ LastOutcome(r12) = Hit
                    /\ (~Cached(cachsim, a2) /\ LastOutcome(r12) = Hit) =>
                          SameBlock(cachsim.b, a1, a2)

---------------------------------------------------------------------------
(* C12 *)

\* C12: configuration validation.  Once main has read its options, a
\* configuration with E < 1 or with s + b > 64 has ended the program with
\* the usage or an error: there is no cache, no block of one is live, and no
\* access has been made.
C12_ConfigValidation ==
    (pc # "main" /\ (args.E < 1 \/ args.s + args.b > 64)) =>
        /\ pc \in {"usage", "error"}
        /\ cachsim = NULL
        /\ \A k \in DOMAIN heap : heap[k] = 1
        /\ calls = <<>>

---------------------------------------------------------------------------
(* C13 *)

\* C13: allocation failure cleanup.  When an allocation of makecache has
\* failed (main ends with an error and has no cache), fewer than 2 + S
\* blocks were allocated and every one of them has been freed exactly once;
\* when makecache has succeeded, exactly 2 + S blocks are live and none has
\* been freed; and when the program is done, freecache has freed every one
\* of the 2 + S blocks exactly once.
C13_AllocationCleanup ==
    /\ (pc = "error" /\ cachsim = NULL) =>
          /\ Len(heap) < 2 + 2^args.s
          /\ \A k \in DOMAIN heap : heap[k] = 1
    /\ (pc = "runsim" \/ (pc = "error" /\ cachsim # NULL)) =>
          /\ DOMAIN heap = 1..(2 + cachsim.S)
          /\ \A k \in DOMAIN heap : heap[k] = 0
    /\ pc = "done" =>
          /\ DOMAIN heap = 1..(2 + 2^args.s)
          /\ \A k \in DOMAIN heap : heap[k] = 1

\* The allocation of the lines of the second set has failed.
C13_Witness ==
    /\ pc = "error" /\ cachsim = NULL
    /\ args.s = 1
    /\ Len(heap) = 3

---------------------------------------------------------------------------
(* C14 *)

\* C14: access is total.  On every cache made with E >= 1 and for every
\* address, the set index is one of 0..S-1, the call takes one of the three
\* branches, and the line it touches and the line find_lru names are among
\* 0..E-1; no access leaves the array of sets.
C14_AccessTotal ==
    (pc \in {"runsim", "fault"} /\ cachsim.E >= 1) =>
        /\ pc # "fault"
        /\ \A a \in Addrs :
              /\ SetIndex(cachsim, a) \in 0..(cachsim.S - 1)
              /\ LET r == access_cache(Now, a)
                     call == r.log[Len(r.log)]
                 IN  /\ call.outcome \in {Hit, MissFill, MissEvict}
                     /\ call.line \in LinesOf(cachsim)
                     /\ find_lru(cachsim.E, cachsim.sets[SetIndex(cachsim, a)])
                            \in LinesOf(cachsim)

---------------------------------------------------------------------------
(* C15 *)

\* The highest lru among the lines of a set.
MaxLru(lines) ==
    CHOOSE m \in {lines[i].lru : i \in DOMAIN lines} :
        \A i \in DOMAIN lines : lines[i].lru <= m

\* An access to address a reaches the eviction step: every line of its set
\* is valid and none holds its tag.
AtEviction(c, a) ==
    /\ ValidLines(c.sets[SetIndex(c, a)]) = LinesOf(c)
    /\ TagOf(c, a) \notin ValidTags(c.sets[SetIndex(c, a)])

\* C15: eviction candidate selection.  Whenever an access reaches the
\* eviction step, find_lru returns the lowest index among the lines of the
\* set that carry the highest lru of the set, and that is the line the
\* access overwrites.
C15_EvictionCandidate ==
    pc = "runsim" =>
        \A a \in Addrs :
            AtEviction(cachsim, a) =>
                LET lines == cachsim.sets[SetIndex(cachsim, a)]
                    first == Least({i \in LinesOf(cachsim) :
                                       lines[i].lru = MaxLru(lines)})
                    r     == access_cache(Now, a)
                IN  /\ find_lru(cachsim.E, lines) = first
                    /\ r.log[Len(r.log)] = Call(a, MissEvict, first)

\* A set of two lines is full and an address of the trace would evict.
C15_Witness ==
    /\ pc = "runsim"
    /\ cachsim.E = 2
    /\ \E a \in Addrs : AtEviction(cachsim, a)

---------------------------------------------------------------------------
(* C16 *)

\* The set an address maps to, from its bits b .. b+s-1.
SetOf(c, a) == (a \div 2^c.b) % 2^c.s

\* The lines of a set whose valid bit or tag differs between two caches.
ChangedLines(c1, c2, set) ==
    {i \in LinesOf(c1) :
        \/ c1.sets[set][i].valid # c2.sets[set][i].valid
        \/ c1.sets[set][i].tag # c2.sets[set][i].tag}

\* C16: set isolation.  An access to an address that maps to set i leaves
\* every line of every other set as it was (valid bit, tag and lru), and
\* changes the valid bit or the tag of at most one line.
C16_SetIsolation ==
    pc = "runsim" =>
        \A a \in Addrs :
            LET r == access_cache(Now, a)
            IN  /\ \A set \in 0..(cachsim.S - 1) :
                      set # SetOf(cachsim, a) =>
                          r.c.sets[set] = cachsim.sets[set]
                /\ Cardinality(ChangedLines(cachsim, r.c, SetOf(cachsim, a))) <= 1
                /\ [r.c EXCEPT !.sets = cachsim.sets] = cachsim

\* The cache has two sets, both hold a line, and the last call changed a
\* line of set 1.
C16_Witness ==
    /\ pc = "runsim"
    /\ cachsim.S = 2
    /\ ValidLines(cachsim.sets[0]) # {}
    /\ Len(calls) > 0
    /\ SetOf(cachsim, calls[Len(calls)].address) = 1
    /\ calls[Len(calls)].outcome # Hit

---------------------------------------------------------------------------
(* C17 *)

\* C17: tag uniqueness.  No two valid lines of a set hold the same tag, and
\* so the tag of an address is held by at most one valid line of its set.
C17_TagUniqueness ==
    pc = "runsim" =>
        /\ \A set \in 0..(cachsim.S - 1) :
              \A i \in LinesOf(cachsim), j \in LinesOf(cachsim) :
                  (/\ i # j
                   /\ cachsim.sets[set][i].valid = 1
                   /\ cachsim.sets[set][j].valid = 1)
                  => cachsim.sets[set][i].tag # cachsim.sets[set][j].tag
        /\ \A a \in Addrs :
              Cardinality({i \in ValidLines(cachsim.sets[SetIndex(cachsim, a)]) :
                              cachsim.sets[SetIndex(cachsim, a)][i].tag
                                  = TagOf(cachsim, a)}) <= 1

\* A set holds two valid lines, and a line has been overwritten since.
C17_Witness ==
    /\ pc = "runsim"
    /\ \E set \in 0..(cachsim.S - 1) :
          Cardinality(ValidLines(cachsim.sets[set])) = 2
    /\ Count(MissEvict) > 0

---------------------------------------------------------------------------
(* C18 *)

\* The number of valid lines of a set.
Occupancy(lines) == Cardinality(ValidLines(lines))

\* C18: valid bits are monotone and fill in index order.  In every set the
\* valid lines are the lines 0..k-1 for some k in 0..E; and an access to any
\* address leaves every valid line valid, raises the k of its set by one
\* when it is a MissFill, leaves it when it is a Hit or a MissEvict, and is
\* a MissEvict only when k = E.
C18_ValidPrefix ==
    pc = "runsim" =>
        /\ \A set \in 0..(cachsim.S - 1) :
              /\ Occupancy(cachsim.sets[set]) \in 0..cachsim.E
              /\ ValidLines(cachsim.sets[set]) =
                     0..(Occupancy(cachsim.sets[set]) - 1)
        /\ \A a \in Addrs :
              LET r    == access_cache(Now, a)
                  out  == LastOutcome(r)
                  set  == SetOf(cachsim, a)
                  k    == Occupancy(cachsim.sets[set])
              IN  /\ \A i \in 0..(cachsim.S - 1) :
                        ValidLines(cachsim.sets[i]) \subseteq ValidLines(r.c.sets[i])
                  /\ Occupancy(r.c.sets[set]) =
                         IF out = MissFill THEN k + 1 ELSE k
                  /\ out = MissEvict => k = cachsim.E

\* A set of two lines has been filled line by line and a line of it has
\* been overwritten.
C18_Witness ==
    /\ pc = "runsim"
    /\ cachsim.E = 2
    /\ Len(calls) = 3
    /\ Outcomes = <<MissFill, MissFill, MissEvict>>
    /\ SetOf(cachsim, calls[1].address) = SetOf(cachsim, calls[3].address)

---------------------------------------------------------------------------
(* C19 *)

\* The valid lines of a cache, over all its sets.
AllValidLines(c) ==
    {p \in (0..(c.S - 1)) \X LinesOf(c) : c.sets[p[1]][p[2]].valid = 1}

\* C19: the counters track occupancy.  While the trace is replayed on the
\* cache main has made, with the counters main has zeroed, misses minus
\* evictions is the number of valid lines of the cache, and so at most S * E.
C19_CountersTrackOccupancy ==
    pc = "runsim" =>
        /\ miss_count - eviction_count = Cardinality(AllValidLines(cachsim))
        /\ miss_count - eviction_count <= cachsim.S * cachsim.E

\* Every line of a cache of two sets is valid, after an eviction.
C19_Witness ==
    /\ pc = "runsim"
    /\ cachsim.S = 2
    /\ eviction_count > 0
    /\ miss_count - eviction_count = cachsim.S * cachsim.E

---------------------------------------------------------------------------
(* C20 *)

=============================================================================
